---- MODULE Spec2Model ----
(***************************************************************************)
(* Model of app.py of jalagus/eurostat-graphs: the cached load of the      *)
(* Eurostat dataset GOV_10A_EXP (get_eurostat_data), the fixed filter      *)
(* (filter_data), the label indexes built at import time, and the Shiny    *)
(* session handlers my_widget (chart projection) and download_data (CSV    *)
(* export).                                                                *)
(*                                                                         *)
(* Representation.                                                         *)
(*  - A float cell is Num(v), v the value in thousandths (34.5 is          *)
(*    Num(34500)), or NaN.  A text cell is a string.                       *)
(*  - A pandas DataFrame is [columns |-> <<names>>, rows |-> <<row>>],     *)
(*    a row being [idx |-> index label, cells |-> <<cell>>], its cells in  *)
(*    the order of the columns.                                            *)
(*  - A Python dict is its insertion-ordered sequence of <<key, value>>.   *)
(*  - A pickle file is a sequence of tagged tokens.                        *)
(*  - A label is a string of the alphabet LabelOrder, which lists the      *)
(*    alphabet in Python's str order (sorted() compares labels with <).    *)
(***************************************************************************)
EXTENDS Integers, Sequences, FiniteSets, TLC

VARIABLES
    remote,            \* what eurostat.get_data / get_dic would return now
    cache,             \* the file data.cache
    pc,                \* position of the module-level code of app.py
    fetched,           \* did the last get_eurostat_data call reach the remote source
    produced,          \* the triple returned by the last call that wrote the cache
    full_data,         \* module global full_data
    cat_titles_dict,   \* module global cat_titles_dict
    geo_titles_dict,   \* module global geo_titles_dict
    filtered_data,     \* module global filtered_data
    cat_choices,       \* choices of ui.input_select("plot_cat_code")
    input_year,        \* input.year()
    input_country,     \* input.country()
    input_plot_cat_code, \* input.plot_cat_code()
    widget,            \* what my_widget last returned
    dl                 \* the download_data coroutine and the document it yielded

vars == <<remote, cache, pc, fetched, produced, full_data, cat_titles_dict,
          geo_titles_dict, filtered_data, cat_choices, input_year,
          input_country, input_plot_cat_code, widget, dl>>

loadVars == <<remote, cache, fetched, produced>>
globalVars == <<full_data, cat_titles_dict, geo_titles_dict, filtered_data, cat_choices>>
sessionVars == <<input_year, input_country, input_plot_cat_code, widget, dl>>

-----------------------------------------------------------------------------
(* Program constants *)

YearMin == 2000
YearMax == 2021
YearDefault == 2021
CodeLenLimit == 5
PercentScale == 100
HeightBase == 220
HeightPerBar == 30

Years == YearMin..YearMax

FixedFilters == << <<"sector", "S13">>, <<"unit", "PC_GDP">>, <<"na_item", "TE">> >>

GeoColumn == "geo\\TIME_PERIOD"
CatColumn == "cofog99"

-----------------------------------------------------------------------------
(* Cells, sequences, text *)

NaN == [nan |-> TRUE]
Num(v) == [nan |-> FALSE, val |-> v]

Range(s) == {s[i] : i \in 1..Len(s)}

RECURSIVE Flatten(_)
Flatten(ss) == IF ss = <<>> THEN <<>> ELSE Head(ss) \o Flatten(Tail(ss))

Digit(d) ==
    CASE d = 0 -> "0" [] d = 1 -> "1" [] d = 2 -> "2" [] d = 3 -> "3"
      [] d = 4 -> "4" [] d = 5 -> "5" [] d = 6 -> "6" [] d = 7 -> "7"
      [] d = 8 -> "8" [] d = 9 -> "9"

\* str(n) for an int n >= 0
RECURSIVE Str(_)
Str(n) == IF n < 10 THEN Digit(n) ELSE Str(n \div 10) \o Digit(n % 10)

\* the digits of the fraction m / 1000 (0 <= m < 1000) without trailing zeros
FracDigits(m) ==
    IF m % 1000 = 0 THEN "0"
    ELSE IF m % 100 = 0 THEN Digit(m \div 100)
    ELSE IF m % 10 = 0 THEN Digit(m \div 100) \o Digit((m \div 10) % 10)
    ELSE Digit(m \div 100) \o Digit((m \div 10) % 10) \o Digit(m % 10)

\* repr of the float v / 1000, v >= 0
FloatRepr(v) == Str(v \div 1000) \o "." \o FracDigits(v % 1000)

-----------------------------------------------------------------------------
(* Python dict: insertion-ordered <<key, value>> pairs with distinct keys *)

DictKeys(d) == {d[i][1] : i \in 1..Len(d)}
DictHas(d, k) == k \in DictKeys(d)
DictGet(d, k) == d[CHOOSE i \in 1..Len(d) : d[i][1] = k][2]

\* d[k] = v: an existing key keeps its position and takes the new value
DictSet(d, k, v) ==
    IF DictHas(d, k)
    THEN [i \in 1..Len(d) |-> IF d[i][1] = k THEN <<k, v>> ELSE d[i]]
    ELSE Append(d, <<k, v>>)

\* {x[0]: x[1] for x in pairs}
RECURSIVE DictFromPairs(_)
DictFromPairs(pairs) ==
    IF pairs = <<>> THEN <<>>
    ELSE LET n == Len(pairs)
         IN  DictSet(DictFromPairs(SubSeq(pairs, 1, n - 1)), pairs[n][1], pairs[n][2])

-----------------------------------------------------------------------------
(* pandas *)

\* pd.DataFrame.from_records(records, columns=columns): a RangeIndex from 0
FromRecords(records, columns) ==
    [columns |-> columns,
     rows    |-> [i \in 1..Len(records) |-> [idx |-> i - 1, cells |-> records[i]]]]

HasColumn(df, name) == name \in Range(df.columns)

\* the position of column name, which df has
ColPos(df, name) == CHOOSE j \in 1..Len(df.columns) : df.columns[j] = name

\* row[name] for a row of df
Cell(df, row, name) == row.cells[ColPos(df, name)]

\* df[name]: the cells of one column, row by row
Column(df, name) ==
    LET j == ColPos(df, name) IN [i \in 1..Len(df.rows) |-> df.rows[i].cells[j]]

\* df[name] = values (a new column goes last)
SetColumn(df, name, values) ==
    IF HasColumn(df, name)
    THEN LET j == ColPos(df, name)
         IN  [columns |-> df.columns,
              rows    |-> [i \in 1..Len(df.rows) |->
                             [idx   |-> df.rows[i].idx,
                              cells |-> [df.rows[i].cells EXCEPT ![j] = values[i]]]]]
    ELSE [columns |-> Append(df.columns, name),
          rows    |-> [i \in 1..Len(df.rows) |->
                         [idx   |-> df.rows[i].idx,
                          cells |-> Append(df.rows[i].cells, values[i])]]]

RECURSIVE KeepRows(_, _)
KeepRows(rows, mask) ==
    IF rows = <<>> THEN <<>>
    ELSE IF Head(mask)
         THEN <<Head(rows)>> \o KeepRows(Tail(rows), Tail(mask))
         ELSE KeepRows(Tail(rows), Tail(mask))

\* df[mask], mask a boolean Series aligned with df
BoolIndexSeries(df, mask) == [columns |-> df.columns, rows |-> KeepRows(df.rows, mask)]

\* df[key], key a Python list: a non-empty list of bools is a row mask; the
\* empty list is no bool indexer (pandas.core.common.is_bool_indexer) and selects
\* the empty list of columns, keeping the index
BoolIndexList(df, key) ==
    IF Len(key) > 0
    THEN [columns |-> df.columns, rows |-> KeepRows(df.rows, key)]
    ELSE [columns |-> <<>>,
          rows    |-> [i \in 1..Len(df.rows) |->
                         [idx |-> df.rows[i].idx, cells |-> <<>>]]]

\* mutant of Div100: a missing value is filled with 0 first
Div100_fill_zero(cell) == IF cell = NaN THEN Num(0) ELSE Num(cell.val \div PercentScale)

\* series / 100 on a float column: NaN stays NaN
Div100(cell) == IF cell = NaN THEN NaN ELSE Num(cell.val \div PercentScale)

-----------------------------------------------------------------------------
(* filter_data *)

\* filtered_data[filtered_data[filter_key] == filter_value]
FilterBy(df, f) ==
    LET column == Column(df, f[1])
    IN  BoolIndexSeries(df, [i \in 1..Len(df.rows) |-> column[i] = f[2]])

\* mutant of filter_data: the return sits inside the loop
filter_data_first_key(data, filters) ==
    IF filters = <<>> THEN data ELSE FilterBy(data, Head(filters))

RECURSIVE filter_data(_, _)
filter_data(data, filters) ==
    IF filters = <<>> THEN data
    ELSE filter_data(FilterBy(data, Head(filters)), Tail(filters))

-----------------------------------------------------------------------------
(* pickle: the file as a sequence of tagged tokens *)

YearColumns == {Str(y) : y \in Years}

\* the float64 columns of the dataset; every other column holds str objects
IsFloatColumn(name) == name \in YearColumns

CellToken(name, cell) ==
    IF IsFloatColumn(name)
    THEN IF cell = NaN THEN [nan |-> TRUE] ELSE [float |-> cell.val]
    ELSE [str |-> cell]

TokenCell(tok) ==
    IF DOMAIN tok = {"nan"} THEN NaN
    ELSE IF DOMAIN tok = {"float"} THEN Num(tok.float)
    ELSE tok.str

PickleFrame(df) ==
    <<[int |-> Len(df.columns)]>>
    \o [j \in 1..Len(df.columns) |-> [str |-> df.columns[j]]]
    \o <<[int |-> Len(df.rows)]>>
    \o Flatten([i \in 1..Len(df.rows) |->
                  <<[int |-> df.rows[i].idx]>>
                  \o [j \in 1..Len(df.columns) |->
                        CellToken(df.columns[j], df.rows[i].cells[j])]])

PickleDict(d) ==
    <<[int |-> Len(d)]>>
    \o Flatten([i \in 1..Len(d) |-> <<[str |-> d[i][1]], [str |-> d[i][2]]>>])

\* pickle.dump([full_data, cat_titles_dict, geo_titles_dict], fp)
PickleDump(obj) == PickleFrame(obj[1]) \o PickleDict(obj[2]) \o PickleDict(obj[3])

\* a frame read from position p: [value, next]
UnpickleFrame(b, p) ==
    LET nc   == b[p].int
        cols == [j \in 1..nc |-> b[p + j].str]
        q    == p + nc + 1
        nr   == b[q].int
        at(i) == q + 1 + (i - 1) * (nc + 1)
    IN  [value |-> [columns |-> cols,
                    rows    |-> [i \in 1..nr |->
                                   [idx   |-> b[at(i)].int,
                                    cells |-> [j \in 1..nc |-> TokenCell(b[at(i) + j])]]]],
         next  |-> q + 1 + nr * (nc + 1)]

UnpickleDict(b, p) ==
    LET n == b[p].int
    IN  [value |-> [i \in 1..n |-> <<b[p + 2 * i - 1].str, b[p + 2 * i].str>>],
         next  |-> p + 1 + 2 * n]

\* mutant of PickleLoad: the two dictionaries unpacked in the other order
PickleLoad_swapped(b) ==
    LET f == UnpickleFrame(b, 1)
        c == UnpickleDict(b, f.next)
        g == UnpickleDict(b, c.next)
    IN  <<f.value, g.value, c.value>>

\* pickle.load(fp)
PickleLoad(b) ==
    LET f == UnpickleFrame(b, 1)
        c == UnpickleDict(b, f.next)
        g == UnpickleDict(b, c.next)
    IN  <<f.value, c.value, g.value>>

-----------------------------------------------------------------------------
(* get_eurostat_data *)

AbsentFile == [exists |-> FALSE, bytes |-> <<>>]
File(bytes) == [exists |-> TRUE, bytes |-> bytes]

\* every code of column name is a key of titles (else titles[x] raises KeyError)
LookupOk(df, name, titles) ==
    \A code \in Range(Column(df, name)) : DictHas(titles, code)

\* df[newname] = df[name].apply(lambda x: titles[x])
AttachLabels(df, name, newname, titles) ==
    LET column == Column(df, name)
    IN  SetColumn(df, newname, [i \in 1..Len(df.rows) |-> DictGet(titles, column[i])])

\* mutant of FetchBranch: the cache is written before the labels are attached
FetchBranch_dump_first(file, rem) ==
    LET cat_dict == DictFromPairs(rem.cat)
        geo_dict == DictFromPairs(rem.geo)
        frame    == FromRecords(Tail(rem.data), Head(rem.data))
        early    == File(PickleDump(<<frame, cat_dict, geo_dict>>))
    IN  IF ~LookupOk(frame, GeoColumn, geo_dict) \/ ~LookupOk(frame, CatColumn, cat_dict)
        THEN [raised |-> "KeyError", value |-> <<>>, cache |-> early, fetched |-> TRUE]
        ELSE LET result == <<AttachLabels(AttachLabels(frame, GeoColumn, "country", geo_dict),
                                          CatColumn, "category", cat_dict),
                             cat_dict, geo_dict>>
             IN  [raised |-> "", value |-> result, cache |-> File(PickleDump(result)),
                  fetched |-> TRUE]

\* lines 26-43: the fetch branch.  The cache file is opened for writing only
\* after both label columns are attached; a KeyError leaves it as it was.
FetchBranch(file, rem) ==
    LET cat_dict == DictFromPairs(rem.cat)
        geo_dict == DictFromPairs(rem.geo)
        frame    == FromRecords(Tail(rem.data), Head(rem.data))
    IN  IF ~LookupOk(frame, GeoColumn, geo_dict)
        THEN [raised |-> "KeyError", value |-> <<>>, cache |-> file, fetched |-> TRUE]
        ELSE LET with_country == AttachLabels(frame, GeoColumn, "country", geo_dict)
             IN  IF ~LookupOk(with_country, CatColumn, cat_dict)
                 THEN [raised |-> "KeyError", value |-> <<>>, cache |-> file,
                       fetched |-> TRUE]
                 ELSE LET result == <<AttachLabels(with_country, CatColumn, "category", cat_dict),
                                      cat_dict, geo_dict>>
                      IN  [raised |-> "", value |-> result,
                           cache |-> File(PickleDump(result)), fetched |-> TRUE]

\* lines 22-24: the cache branch
CacheBranch(file) ==
    [raised |-> "", value |-> PickleLoad(file.bytes), cache |-> file, fetched |-> FALSE]

get_eurostat_data(file, rem) ==
    IF file.exists THEN CacheBranch(file) ELSE FetchBranch(file, rem)

-----------------------------------------------------------------------------
(* The label indexes, lines 51-57, and the category choices, line 79 *)

LabelOrder == <<"Defence", "Finland", "Health", "Sweden", "Total">>
LabelRank(l) == CHOOSE i \in 1..Len(LabelOrder) : LabelOrder[i] = l

\* a < b on the labels, as Python compares str
StrLess(a, b) == LabelRank(a) < LabelRank(b)

\* insert item after the last entry whose label is not greater (stable)
RECURSIVE InsertByLabel(_, _)
InsertByLabel(sorted, item) ==
    IF sorted = <<>> THEN <<item>>
    ELSE LET n == Len(sorted)
         IN  IF StrLess(item[2], sorted[n][2])
             THEN Append(InsertByLabel(SubSeq(sorted, 1, n - 1), item), sorted[n])
             ELSE Append(sorted, item)

\* sorted(d.items(), key=lambda x: x[1])
RECURSIVE SortedByLabel(_)
SortedByLabel(items) ==
    IF items = <<>> THEN <<>>
    ELSE LET n == Len(items)
         IN  InsertByLabel(SortedByLabel(SubSeq(items, 1, n - 1)), items[n])

\* full_data["geo\TIME_PERIOD"].unique().tolist(), as the set its members form
UniqCountries(df) == Range(Column(df, GeoColumn))

IsPresentCode(pair, codes) == pair[1] \in codes

\* mutant of BuildGeoIndex: no restriction to the countries of the data
BuildGeoIndex_unrestricted(titles, df) == SortedByLabel(titles)

\* lines 52-56
BuildGeoIndex(titles, df) ==
    LET uniq_countries == UniqCountries(df)
    IN  SelectSeq(SortedByLabel(titles), LAMBDA kv : IsPresentCode(kv, uniq_countries))

\* line 57
BuildCatIndex(titles) == SortedByLabel(titles)

\* mutant of IsShortCode: <= for <
IsShortCode_inclusive(k) == Len(k) <= CodeLenLimit

IsShortCode(k) == Len(k) < CodeLenLimit

\* line 79
CategoryChoices(titles) == SelectSeq(titles, LAMBDA kv : IsShortCode(kv[1]))

-----------------------------------------------------------------------------
(* The session handlers: my_widget, lines 108-137, and download_data, 140-152 *)

NoFrame == [columns |-> <<>>, rows |-> <<>>]
None == [kind |-> "none"]
Raised(exc) == [kind |-> "raised", exc |-> exc]
Figure(data, year, height) ==
    [kind |-> "fig", data |-> data, year |-> year, height |-> height]

\* mutant of SelectIn: the membership test negated
SelectIn_negated(df, name, selected) ==
    IF ~HasColumn(df, name) THEN Raised("KeyError")
    ELSE LET column == Column(df, name)
         IN  [kind |-> "frame",
              data |-> BoolIndexList(df, [i \in 1..Len(df.rows) |-> column[i] \notin selected])]

\* df[df[name].apply(lambda x: x in selected).tolist()], lines 112-116 and
\* 117-119 (141-145 and 146-148); df[name] raises KeyError without the column
SelectIn(df, name, selected) ==
    IF ~HasColumn(df, name) THEN Raised("KeyError")
    ELSE LET column == Column(df, name)
         IN  [kind |-> "frame",
              data |-> BoolIndexList(df, [i \in 1..Len(df.rows) |-> column[i] \in selected])]

\* the two selections in a row: by country, then by category
SelectRows(df, country, plot_cat_code) ==
    LET by_country == SelectIn(df, GeoColumn, country)
    IN  IF by_country.kind = "raised" THEN by_country
        ELSE SelectIn(by_country.data, CatColumn, plot_cat_code)

\* line 120
AddValue(df, year) ==
    IF ~HasColumn(df, Str(year)) THEN Raised("KeyError")
    ELSE LET column == Column(df, Str(year))
         IN  [kind |-> "frame",
              data |-> SetColumn(df, "value", [i \in 1..Len(df.rows) |-> Div100(column[i])])]

FigureHeight(country, plot_cat_code) ==
    HeightBase + Cardinality(plot_cat_code) * (Cardinality(country) * HeightPerBar)

my_widget(df, country, plot_cat_code, year) ==
    IF Cardinality(country) < 1 \/ Cardinality(plot_cat_code) < 1 THEN None
    ELSE LET selected == SelectRows(df, country, plot_cat_code)
         IN  IF selected.kind = "raised" THEN selected
             ELSE LET plot_data == AddValue(selected.data, year)
                  IN  IF plot_data.kind = "raised" THEN plot_data
                      ELSE Figure(plot_data.data, year, FigureHeight(country, plot_cat_code))

\* the text of one cell in DataFrame.to_csv(): NaN is the empty string
CellText(name, cell) ==
    IF IsFloatColumn(name)
    THEN IF cell = NaN THEN "" ELSE FloatRepr(cell.val)
    ELSE cell

\* DataFrame.to_csv(): the lines of the document, each line the texts that
\* the commas separate; the first line is the header, its first text the
\* unnamed index column
to_csv(df) ==
    << <<"">> \o df.columns >>
    \o [i \in 1..Len(df.rows) |->
          <<Str(df.rows[i].idx)>>
          \o [j \in 1..Len(df.columns) |-> CellText(df.columns[j], df.rows[i].cells[j])]]

IdleDownload ==
    [pc |-> "idle", plot_data |-> NoFrame, country |-> {}, plot_cat_code |-> {},
     csv |-> <<>>]

\* lines 141-149: what the coroutine holds when it reaches the sleep
download_data_begin(df, country, plot_cat_code) ==
    LET selected == SelectRows(df, country, plot_cat_code)
    IN  IF selected.kind = "raised"
        THEN [pc |-> "raised", plot_data |-> NoFrame, country |-> country,
              plot_cat_code |-> plot_cat_code, csv |-> <<>>]
        ELSE [pc |-> "sleeping", plot_data |-> selected.data, country |-> country,
              plot_cat_code |-> plot_cat_code, csv |-> <<>>]

\* lines 151-152: after the sleep
download_data_resume(d) ==
    [d EXCEPT !.pc = "done", !.csv = to_csv(d.plot_data)]

-----------------------------------------------------------------------------
(* Inputs: what the remote source may return *)

MaxRows == 2         \* records of a dataset in Spec
MaxPairs == 2        \* pairs of a fetched dictionary in Spec
MaxCacheRows == 2    \* records of a dataset in SpecCache
MaxChartRows == 2    \* records of a dataset in SpecChart
MaxDownloadRows == 2 \* records of a dataset in SpecDownload

SeqsUpTo(S, n) == UNION {[1..k -> S] : k \in 0..n}

Header ==
    <<"unit", "sector", CatColumn, "na_item", GeoColumn>>
    \o [i \in 1..(YearMax - YearMin + 1) |-> Str(YearMin + i - 1)]

\* 34.5 in the first year and 0.1 more each year
FullSeries == [y \in Years |-> Num(34500 + 100 * (y - YearMin))]
\* the same with no value for 2015 and 2021
GapSeries == [y \in Years |-> IF y \in {2015, 2021} THEN NaN ELSE FullSeries[y]]

Record(unit, sector, cofog, na_item, geo, series) ==
    <<unit, sector, cofog, na_item, geo>>
    \o [i \in 1..(YearMax - YearMin + 1) |-> series[YearMin + i - 1]]

GeoCodes == {"FI", "SE"}
CatCodes == {"GF01", "GF0101"}
GeoPairs == GeoCodes \X {"Finland", "Sweden"}
CatPairs == CatCodes \X {"Defence", "Health"}
FullGeo == << <<"FI", "Finland">>, <<"SE", "Sweden">> >>
FullCat == << <<"TOTAL", "Total">>, <<"GF0101", "Health">>, <<"GF01", "Defence">> >>

Remote(records, cat, geo) == [data |-> <<Header>> \o records, cat |-> cat, geo |-> geo]

\* datasets of up to n records that differ in the filtered fields, with full
\* dictionaries
FilterInputs(n) ==
    {Remote(recs, FullCat, FullGeo) :
        recs \in SeqsUpTo({Record(u, s, "GF01", k, g, FullSeries) :
                              u \in {"PC_GDP", "MIO_EUR"}, s \in {"S13", "S11"},
                              k \in {"TE", "P2"}, g \in GeoCodes}, n)}

\* datasets of up to n records that differ in the countries, with one
\* dictionary of up to m pairs of any shape and the other one full
IndexInputs(n, m) ==
    LET datasets == SeqsUpTo({Record("PC_GDP", "S13", "GF01", "TE", g, FullSeries) :
                                 g \in GeoCodes}, n)
    IN  {Remote(recs, cat, FullGeo) : recs \in datasets, cat \in SeqsUpTo(CatPairs, m)}
        \cup {Remote(recs, FullCat, geo) : recs \in datasets, geo \in SeqsUpTo(GeoPairs, m)}

CacheInputs ==
    {Remote(recs, FullCat, geo) :
        recs \in SeqsUpTo({Record("PC_GDP", "S13", "GF01", "TE", g, s) :
                              g \in GeoCodes, s \in {FullSeries}}, MaxCacheRows),
        geo \in {FullGeo, << <<"FI", "Finland">> >>,
                 << <<"SE", "Finland">>, <<"FI", "Sweden">> >>}}

\* datasets of the Filtered Dataset's kind; a row of "GF01" may lack values
ChartInputs ==
    {Remote(recs, FullCat, FullGeo) :
        recs \in SeqsUpTo({Record("PC_GDP", "S13", "GF01", "TE", g, s) :
                              g \in GeoCodes, s \in {FullSeries, GapSeries}}
                          \cup {Record("PC_GDP", "S13", "GF0101", "TE", g, FullSeries) :
                                   g \in GeoCodes},
                          MaxChartRows)}

\* datasets of the Filtered Dataset's kind; the rows of "SE" lack values
DownloadInputs ==
    {Remote(recs, FullCat, FullGeo) :
        recs \in SeqsUpTo({Record("PC_GDP", "S13", c, "TE", "FI", FullSeries) :
                              c \in CatCodes}
                          \cup {Record("PC_GDP", "S13", c, "TE", "SE", GapSeries) :
                                   c \in CatCodes},
                          MaxDownloadRows)}

-----------------------------------------------------------------------------
(* The module-level code, lines 46-57 and 79 *)

FreshProcess ==
    /\ pc = "import"
    /\ fetched = FALSE
    /\ full_data = NoFrame
    /\ cat_titles_dict = <<>>
    /\ geo_titles_dict = <<>>
    /\ filtered_data = NoFrame
    /\ cat_choices = <<>>

FreshSession ==
    /\ input_year = YearDefault
    /\ input_country = {}
    /\ input_plot_cat_code = {}
    /\ widget = None
    /\ dl = IdleDownload

\* line 46
LoadData ==
    /\ pc = "import"
    /\ \E r \in {get_eurostat_data(cache, remote)} :
        /\ cache' = r.cache
        /\ fetched' = r.fetched
        /\ IF r.raised # ""
           THEN /\ pc' = "crashed"
                /\ UNCHANGED <<produced, full_data, cat_titles_dict, geo_titles_dict>>
           ELSE /\ pc' = "loaded"
                /\ full_data' = r.value[1]
                /\ cat_titles_dict' = r.value[2]
                /\ geo_titles_dict' = r.value[3]
                /\ produced' = IF r.fetched THEN r.value ELSE produced
    /\ UNCHANGED <<remote, filtered_data, cat_choices, sessionVars>>

\* lines 47-49
ApplyFilter ==
    /\ pc = "loaded"
    /\ filtered_data' = filter_data(full_data, FixedFilters)
    /\ pc' = "filtered"
    /\ UNCHANGED <<loadVars, full_data, cat_titles_dict, geo_titles_dict, cat_choices,
                   sessionVars>>

\* lines 51-57 and the choices of line 79
BuildIndexes ==
    /\ pc = "filtered"
    /\ geo_titles_dict' = BuildGeoIndex(geo_titles_dict, full_data)
    /\ cat_titles_dict' = BuildCatIndex(cat_titles_dict)
    /\ cat_choices' = CategoryChoices(BuildCatIndex(cat_titles_dict))
    /\ pc' = "serving"
    /\ UNCHANGED <<loadVars, full_data, filtered_data, sessionVars>>

\* the process ends and app.py is imported again
Restart ==
    /\ pc \in {"serving", "crashed"}
    /\ pc' = "import"
    /\ fetched' = FALSE
    /\ full_data' = NoFrame
    /\ cat_titles_dict' = <<>>
    /\ geo_titles_dict' = <<>>
    /\ filtered_data' = NoFrame
    /\ cat_choices' = <<>>
    /\ UNCHANGED <<remote, cache, produced, sessionVars>>

\* Eurostat publishes other data
RemoteUpdate ==
    /\ pc \in {"serving", "crashed"}
    /\ \E r \in CacheInputs : r # remote /\ remote' = r
    /\ UNCHANGED <<cache, pc, fetched, produced, globalVars, sessionVars>>

\* data.cache is removed between two runs
DeleteCache ==
    /\ pc \in {"serving", "crashed"}
    /\ cache.exists
    /\ cache' = AbsentFile
    /\ UNCHANGED <<remote, pc, fetched, produced, globalVars, sessionVars>>

Init ==
    /\ remote \in FilterInputs(MaxRows) \cup IndexInputs(MaxRows, MaxPairs)
    /\ cache = AbsentFile
    /\ produced = <<>>
    /\ FreshProcess
    /\ FreshSession

Next == LoadData \/ ApplyFilter \/ BuildIndexes

Spec == Init /\ [][Next]_vars

InitCache ==
    /\ remote \in CacheInputs
    /\ cache = AbsentFile
    /\ produced = <<>>
    /\ FreshProcess
    /\ FreshSession

NextCache ==
    LoadData \/ ApplyFilter \/ BuildIndexes \/ Restart \/ RemoteUpdate \/ DeleteCache

SpecCache == InitCache /\ [][NextCache]_vars

-----------------------------------------------------------------------------
(* A session of the served app *)

\* the reactive flush after an input changed: my_widget runs again
Render(country, plot_cat_code, year) ==
    my_widget(filtered_data, country, plot_cat_code, year)

\* the year slider, lines 67-75, moved by one step (an arrow key, a tick of
\* the animation); a drag reaches the same years
SetYear ==
    /\ pc = "serving"
    /\ \E y \in Years \cap {input_year - 1, input_year + 1} :
        /\ input_year' = y
        /\ widget' = Render(input_country, input_plot_cat_code, y)
    /\ UNCHANGED <<loadVars, pc, globalVars, input_country, input_plot_cat_code, dl>>

\* the country select, line 83
SetCountry ==
    /\ pc = "serving"
    /\ \E c \in SUBSET GeoCodes :
        /\ c # input_country
        /\ input_country' = c
        /\ widget' = Render(c, input_plot_cat_code, input_year)
    /\ UNCHANGED <<loadVars, pc, globalVars, input_year, input_plot_cat_code, dl>>

\* the category select, line 76
SetCategory ==
    /\ pc = "serving"
    /\ \E k \in SUBSET CatCodes :
        /\ k # input_plot_cat_code
        /\ input_plot_cat_code' = k
        /\ widget' = Render(input_country, k, input_year)
    /\ UNCHANGED <<loadVars, pc, globalVars, input_year, input_country, dl>>

\* the download button: download_data runs to its await, lines 141-149
DownloadBegin ==
    /\ pc = "serving"
    /\ dl.pc # "sleeping"
    /\ dl' = download_data_begin(filtered_data, input_country, input_plot_cat_code)
    /\ UNCHANGED <<loadVars, pc, globalVars, input_year, input_country,
                   input_plot_cat_code, widget>>

\* mutant of DownloadResume: the rows are selected after the sleep
DownloadResume_selecting_late ==
    /\ pc = "serving"
    /\ dl.pc = "sleeping"
    /\ dl' = download_data_resume(
                download_data_begin(filtered_data, input_country, input_plot_cat_code))
    /\ UNCHANGED <<loadVars, pc, globalVars, input_year, input_country,
                   input_plot_cat_code, widget>>

\* the sleep is over: lines 151-152
DownloadResume ==
    /\ pc = "serving"
    /\ dl.pc = "sleeping"
    /\ dl' = download_data_resume(dl)
    /\ UNCHANGED <<loadVars, pc, globalVars, input_year, input_country,
                   input_plot_cat_code, widget>>

\* the app is serving what the remote source returned to a first run
InitSession(inputs) ==
    /\ remote \in inputs
    /\ \E r \in {get_eurostat_data(AbsentFile, remote)} :
        /\ cache = r.cache
        /\ fetched = r.fetched
        /\ produced = r.value
        /\ full_data = r.value[1]
        /\ filtered_data = filter_data(full_data, FixedFilters)
        /\ geo_titles_dict = BuildGeoIndex(r.value[3], full_data)
        /\ cat_titles_dict = BuildCatIndex(r.value[2])
        /\ cat_choices = CategoryChoices(cat_titles_dict)
    /\ pc = "serving"
    /\ FreshSession

NextChart == SetYear \/ SetCountry \/ SetCategory

InitChart == InitSession(ChartInputs)

SpecChart == InitChart /\ [][NextChart]_vars

NextDownload == SetCountry \/ SetCategory \/ DownloadBegin \/ DownloadResume

InitDownload == InitSession(DownloadInputs)

SpecDownload == InitDownload /\ [][NextDownload]_vars

-----------------------------------------------------------------------------
(* Claims checked under Spec: one import of app.py *)

RowsOf(df) == Range(df.rows)

\* the codes of column name that occur in df
CodesIn(df, name) == {Cell(df, row, name) : row \in RowsOf(df)}

\* the labels of index ascend, equal neighbours allowed
Ascending(index) ==
    \A i \in 1..(Len(index) - 1) : ~StrLess(index[i + 1][2], index[i][2])

\* the labels of index ascend and no two neighbours are equal
StrictlyAscending(index) ==
    \A i \in 1..(Len(index) - 1) : StrLess(index[i][2], index[i + 1][2])

\* C1: every row of the Filtered Dataset has sector "S13", unit "PC_GDP" and
\* na_item "TE", and filter_data with the same predicate applied to the
\* Filtered Dataset returns the same rows.
C1_FilteredRowsMatch ==
    pc \in {"filtered", "serving"} =>
        /\ \A row \in RowsOf(filtered_data) :
              /\ Cell(filtered_data, row, "sector") = "S13"
              /\ Cell(filtered_data, row, "unit") = "PC_GDP"
              /\ Cell(filtered_data, row, "na_item") = "TE"
        /\ filter_data(filtered_data, FixedFilters) = filtered_data

\* the filter kept a row and dropped a row
C1_Witness ==
    /\ pc = "serving"
    /\ Len(filtered_data.rows) >= 1
    /\ Len(filtered_data.rows) < Len(full_data.rows)

\* C3 as claimed: the keys of both label indexes are codes present in the
\* data, and the labels of both strictly ascend.
C3_AsClaimed ==
    pc = "serving" =>
        /\ DictKeys(geo_titles_dict) \subseteq CodesIn(full_data, GeoColumn)
        /\ DictKeys(cat_titles_dict) \subseteq CodesIn(full_data, CatColumn)
        /\ StrictlyAscending(geo_titles_dict)
        /\ StrictlyAscending(cat_titles_dict)

\* C3 as amended: the keys of the country index are the fetched geography
\* codes that occur in the dataset; the keys of the category index are all
\* the fetched category codes, in the data or not; the labels of both
\* ascend, equal labels allowed.
C3_IndexesSorted ==
    pc = "serving" =>
        /\ DictKeys(geo_titles_dict) \subseteq CodesIn(full_data, GeoColumn)
        /\ DictKeys(geo_titles_dict) =
              DictKeys(produced[3]) \cap CodesIn(full_data, GeoColumn)
        /\ DictKeys(cat_titles_dict) = DictKeys(produced[2])
        /\ \A kv \in Range(geo_titles_dict) : DictGet(produced[3], kv[1]) = kv[2]
        /\ \A kv \in Range(cat_titles_dict) : DictGet(produced[2], kv[1]) = kv[2]
        /\ Ascending(geo_titles_dict)
        /\ Ascending(cat_titles_dict)

\* two countries share a label, the fetched pairs were not in label order,
\* and a category of the index is in no row
C3_Witness ==
    /\ pc = "serving"
    /\ Len(geo_titles_dict) = 2
    /\ geo_titles_dict[1][2] = geo_titles_dict[2][2]
    /\ cat_titles_dict # produced[2]
    /\ ~(DictKeys(cat_titles_dict) \subseteq CodesIn(full_data, CatColumn))

-----------------------------------------------------------------------------
(* Claims checked under SpecCache: runs of app.py one after another *)

\* some record of rem has a geography or category code that the fetched
\* dictionary of rem does not list
MissingCode(rem) ==
    \E i \in 2..Len(rem.data) :
        LET rec == [j \in 1..Len(Header) |-> rem.data[i][j]]
            at(name) == CHOOSE j \in 1..Len(Header) : rem.data[1][j] = name
        IN  \/ rec[at(GeoColumn)] \notin {rem.geo[k][1] : k \in 1..Len(rem.geo)}
            \/ rec[at(CatColumn)] \notin {rem.cat[k][1] : k \in 1..Len(rem.cat)}

\* the step is a call of get_eurostat_data
LoadStep == pc = "import" /\ pc' # "import"

\* C4: once a call has fetched and written the cache, a call that finds the
\* cache file reaches no remote source and returns the dataset, category
\* labels and country labels that the writing call returned, whatever the
\* remote source returns by then.
C4_CacheRoundTrip ==
    [][(LoadStep /\ cache.exists) =>
          /\ pc' = "loaded"
          /\ ~fetched'
          /\ <<full_data', cat_titles_dict', geo_titles_dict'>> = produced
          /\ cache' = cache]_vars

\* a call has loaded the cache although the remote source now returns other
\* data, or data that cannot be loaded
C4_Witness ==
    /\ pc = "loaded"
    /\ ~fetched
    /\ Len(full_data.rows) >= 1
    /\ LET now == get_eurostat_data(AbsentFile, remote)
       IN  now.raised # "" \/ now.value # produced

-----------------------------------------------------------------------------
(* Claims checked under SpecChart: the inputs of a session and its chart *)

\* the rows of the Filtered Dataset of a selected country and category
Matching(country, plot_cat_code) ==
    {row \in RowsOf(filtered_data) :
        /\ Cell(filtered_data, row, GeoColumn) \in country
        /\ Cell(filtered_data, row, CatColumn) \in plot_cat_code}

\* the rows of the table that my_widget handed to the renderer
ChartRows(w) == IF w.kind = "fig" THEN RowsOf(w.data) ELSE {}

\* the rows of w that came from the row src of the Filtered Dataset
ChartRowsOf(w, src) == {row \in ChartRows(w) : row.idx = src.idx}

SelectionEmpty == input_country = {} \/ input_plot_cat_code = {}

\* the selected rows without a value for the selected year
MissingNow ==
    {row \in Matching(input_country, input_plot_cat_code) :
        Cell(filtered_data, row, Str(input_year)) = NaN}

C5_ProjectionMonotonic ==
    \A country \in SUBSET input_country, plot_cat_code \in SUBSET input_plot_cat_code :
        LET narrow == my_widget(filtered_data, country, plot_cat_code, input_year)
        IN  /\ ChartRows(narrow) \subseteq ChartRows(widget)
            /\ (country = {} \/ plot_cat_code = {}) => narrow = None

\* a non-empty narrower selection projects some rows of the chart, not all
C5_Witness ==
    \E country \in SUBSET input_country, plot_cat_code \in SUBSET input_plot_cat_code :
        LET narrow == my_widget(filtered_data, country, plot_cat_code, input_year)
        IN  /\ ChartRows(narrow) # {}
            /\ ChartRows(narrow) # ChartRows(widget)

\* C7 as claimed: my_widget returns None, and raises nothing, exactly when
\* no country or no category is selected; otherwise it returns a chart of
\* the rows of the selected countries and categories.
C7_AsClaimed ==
    /\ widget = None <=> SelectionEmpty
    /\ widget.kind # "raised"
    /\ ~SelectionEmpty =>
          /\ widget.kind = "fig"
          /\ {row.idx : row \in ChartRows(widget)} =
                {row.idx : row \in Matching(input_country, input_plot_cat_code)}

\* C8: the category choices hold no code of length 5 or more and hold every
\* code of the category dictionary of length 1 to 4; the rows with longer
\* category codes are in the Filtered Dataset, and the projection returns
\* those of a selected country whose code is selected.
C8_ShortCodesOffered ==
    /\ \A kv \in Range(cat_choices) : Len(kv[1]) < 5
    /\ \A kv \in Range(cat_titles_dict) :
          (1 <= Len(kv[1]) /\ Len(kv[1]) <= 4) => kv \in Range(cat_choices)
    /\ \A row \in RowsOf(full_data) :
          (/\ Len(Cell(full_data, row, CatColumn)) >= 5
           /\ Cell(full_data, row, "sector") = "S13"
           /\ Cell(full_data, row, "unit") = "PC_GDP"
           /\ Cell(full_data, row, "na_item") = "TE") => row \in RowsOf(filtered_data)
    /\ \A src \in Matching(input_country, input_plot_cat_code) :
          Len(Cell(filtered_data, src, CatColumn)) >= 5 =>
              /\ widget.kind = "fig"
              /\ ChartRowsOf(widget, src) # {}

\* a code of length 5 is in the dictionary, and the chart shows a row of a
\* longer code, which the choices do not offer
C8_Witness ==
    /\ \E kv \in Range(cat_titles_dict) : Len(kv[1]) = 5
    /\ \E row \in ChartRows(widget) :
          /\ Len(Cell(widget.data, row, CatColumn)) >= 5
          /\ ~DictHas(cat_choices, Cell(widget.data, row, CatColumn))

-----------------------------------------------------------------------------
(* Claims checked under SpecDownload: the inputs of a session and its download *)

\* the index texts of the data lines of a document
DataIndexes(csv) == [i \in 1..(Len(csv) - 1) |-> csv[i + 1][1]]

\* the index texts of the rows of the Filtered Dataset of a selected country
\* and category, in the order of the dataset
RECURSIVE MatchingIndexes(_, _, _)
MatchingIndexes(rows, country, plot_cat_code) ==
    IF rows = <<>> THEN <<>>
    ELSE LET rest == MatchingIndexes(Tail(rows), country, plot_cat_code)
             row  == Head(rows)
         IN  IF row \in Matching(country, plot_cat_code)
             THEN <<Str(row.idx)>> \o rest
             ELSE rest

\* the line of a document for a row of the Filtered Dataset: its index and
\* every column as stored
RawLine(row) ==
    <<Str(row.idx)>>
    \o [j \in 1..Len(filtered_data.columns) |->
          CellText(filtered_data.columns[j], row.cells[j])]

\* C6 as claimed: a download emits a document and no error; its data lines
\* are those of the rows of the Filtered Dataset of the selected countries and
\* categories, each with every column of the dataset as stored; with no
\* country or no category selected it is a header and no data line.
C6_AsClaimed ==
    /\ dl.pc # "raised"
    /\ dl.pc = "done" =>
          /\ Len(dl.csv) >= 1
          /\ DataIndexes(dl.csv) =
                MatchingIndexes(filtered_data.rows, dl.country, dl.plot_cat_code)
          /\ \A i \in 2..Len(dl.csv) :
                /\ dl.csv[1] = <<"">> \o filtered_data.columns
                /\ \E row \in Matching(dl.country, dl.plot_cat_code) :
                      dl.csv[i] = RawLine(row)
          /\ (dl.country = {} \/ dl.plot_cat_code = {}) => Len(dl.csv) = 1

\* the step is download_data reaching its sleep, or leaving it
DownloadStep == dl' # dl

\* C10: the data lines of a download are those of the rows for the countries
\* and categories read when download_data was called, whatever is selected
\* when the sleep ends; a download changes neither the selection, nor the
\* Filtered Dataset, nor the label dictionaries.
C10_DownloadReadsSelectionOnce ==
    [][/\ (DownloadStep /\ dl'.pc # "done") =>
            /\ dl'.country = input_country
            /\ dl'.plot_cat_code = input_plot_cat_code
       /\ (DownloadStep /\ dl'.pc = "done") =>
            /\ dl'.country = dl.country
            /\ dl'.plot_cat_code = dl.plot_cat_code
            /\ DataIndexes(dl'.csv) =
                  MatchingIndexes(filtered_data.rows, dl.country, dl.plot_cat_code)
       /\ DownloadStep =>
            UNCHANGED <<input_year, input_country, input_plot_cat_code, filtered_data,
                        full_data, cat_titles_dict, geo_titles_dict>>]_vars

\* download_data sleeps, and the selection is no longer the one it read:
\* other rows are selected now
C10_Witness ==
    /\ dl.pc = "sleeping"
    /\ <<input_country, input_plot_cat_code>> # <<dl.country, dl.plot_cat_code>>
    /\ Len(dl.plot_data.rows) >= 1
    /\ MatchingIndexes(filtered_data.rows, input_country, input_plot_cat_code)
          # MatchingIndexes(filtered_data.rows, dl.country, dl.plot_cat_code)

====
